---- MODULE Spec2Model ----
(***************************************************************************)
(* Capture - record - export pipeline of the screen recorder (src/main.py) *)
(*                                                                         *)
(*   Spec        the recording session: the GUI thread's handlers          *)
(*               (start_recording, stop_recording, reselect_region), the   *)
(*               RecordThread objects they create and each RecordThread's  *)
(*               AudioRecordThread, interleaved step by step.              *)
(*   FairSpec    Spec with the scheduler's fairness for the worker threads *)
(*               and for the GUI thread's return from QThread.wait().      *)
(*   CaptureSpec Spec with the callbacks of the audio streams.             *)
(*   AppSpec     Spec with the export tab: start_export, on_export_done    *)
(*               and the ExportThread running beside the session.          *)
(*   ExportSpec  one ExportThread job, its inputs drawn from bounded sets. *)
(*   AudioSpec   AudioRecordThread.save_to_file on bounded source buffers. *)
(***************************************************************************)
EXTENDS Integers, Sequences, FiniteSets, TLC

\* ------------------------------------------------------------------ bounds
\* RecordThread objects created over one history of the session
MaxThreads == 2
\* frames grabbed successfully over one history of the session
MaxFrames == 2
\* times stop_recording may merge one and the same RecordThread
MaxMerges == 2
\* chunks one audio source has delivered
MaxChunks == 2
MaxDevices == 2
MaxTime == 12
MaxGrab == 9
MaxOversleep == 1

\* ------------------------------------------------------------- the session
VARIABLES
    gui_pc,          \* GUI thread: "idle" (in the event loop) or "stop_wait"
                     \* (inside stop_recording, blocked in record_thread.wait())
    stop_finish,     \* the finish argument of the stop_recording call in progress
    frames,          \* ScreenRecorder.frames, the cumulative frame list
    is_recording,    \* ScreenRecorder.is_recording
    record_thread,   \* ScreenRecorder.record_thread: None, else an index of rt
    audio_file,      \* ScreenRecorder.audio_file: None or the path of a sub-run's wav
    btn_export,      \* btn_export.isEnabled()
    rt,              \* the RecordThread objects, in creation order
    at,              \* at[t]: the AudioRecordThread of RecordThread t
    grabbed          \* every frame grabbed so far by any thread, in grab order

\* None, for a thread reference and for a path (paths are positive numbers)
None == 0

\* the sizes a frame may have: Regions below, at and above the gif width cap
FrameSizes == {[w |-> 800, h |-> 600], [w |-> 1000, h |-> 750],
               [w |-> 1920, h |-> 1080], [w |-> 2000, h |-> 1500]}

\* the Regions a sub-run of the session may be started with (a frame has its
\* Region's size)
Regions == {[w |-> 800, h |-> 600]}

\* RecordThread.__init__; besides the object's fields: emitted and
\* stopped_emitted, the frame_captured values and the number of
\* recording_stopped notifications it has sent; merges, how often stop_recording
\* has merged its frames; finish, the argument of the last stop_recording on
\* it; saved, whether save_to_file wrote its wav; wav, whether the file at its
\* audio path exists
NewRecordThread(region, record_audio) ==
    [pc |-> "start", is_recording |-> FALSE, frames |-> <<>>, count |-> 0,
     region |-> region, record_audio |-> record_audio, audio_file |-> None,
     emitted |-> <<>>, stopped_emitted |-> 0, merges |-> 0, saved |-> FALSE,
     finish |-> TRUE, wav |-> FALSE]

\* AudioRecordThread.__init__; besides the flag: system and mic, the chunks in
\* system_audio_data and in mic_audio_data; stopped, whether stop() has been
\* called; late, whether a chunk was appended by a callback that was invoked
\* after stop() had been called
NewAudioThread ==
    [pc |-> "start", is_recording |-> FALSE, system |-> 0, mic |-> 0,
     stopped |-> FALSE, late |-> FALSE]

\* RecordThread.audio_thread is None
NoAudioThread == [NewAudioThread EXCEPT !.pc = "none"]

Threads == 1..Len(rt)

SessionInit ==
    /\ gui_pc = "idle"
    /\ stop_finish = TRUE
    /\ frames = <<>>
    /\ is_recording = FALSE
    /\ record_thread = None
    /\ audio_file = None
    /\ btn_export = FALSE
    /\ rt = <<>>
    /\ at = <<>>
    /\ grabbed = <<>>

sessionVars == <<gui_pc, stop_finish, frames, is_recording, record_thread,
                 audio_file, btn_export, rt, at, grabbed>>

\* the export job
VARIABLES
    ex_pc,        \* "none" (no job), "run", "gif", "video", "audio_video", "mux",
                  \* "finished"
    ex_job,       \* the job: frames, fps, fmt, gif_fps, audio_file of __init__
    ex_i,         \* frames handled so far by the loop in progress
    ex_rgb,       \* frames_rgb of the gif branch
    ex_progress,  \* the values progress_updated has emitted, in order
    ex_finished,  \* the export_finished notifications, in order
    ex_mux,       \* how the mux process ended: "none" (not invoked), "ok",
                  \* "nonzero", "launch_fail"
    fs,           \* the files: the target path, the temporary video, the wav
    ex_loc,       \* locals of run: total (line 849), selected (line 857) and
                  \* e, the exception caught at line 881
    ex_orphaned   \* an ExportThread was replaced as ScreenRecorder.exp_thread
                  \* before it had finished

exportVars == <<ex_pc, ex_job, ex_i, ex_rgb, ex_progress, ex_finished, ex_mux, fs,
                ex_loc, ex_orphaned>>

\* save_to_file on one AudioRecordThread
VARIABLES
    au_pc,        \* "none" (not under study), "stopped" (joined, before
                  \* save_to_file), "returned" (save_to_file has returned)
    au_thread,    \* the thread's system_audio_data, mic_audio_data,
                  \* system_channels and mic_channels
    au_parts,     \* audio_parts of save_to_file
    au_write_ok,  \* whether sf.write succeeded, were it called
    au_ret,       \* the value save_to_file returned
    au_file,      \* the file at filepath
    ar_pc,        \* AudioRecordThread.run, statement by statement: "none" (not
                  \* under study), "start", "system", "mic", "wait", "closing",
                  \* "returned"
    ar,           \* that thread's flag, host object, streams and buffers
    ar_devs       \* the devices the audio host lists, in index order

audioVars == <<au_pc, au_thread, au_parts, au_write_ok, au_ret, au_file,
               ar_pc, ar, ar_devs>>

\* The capture loop of RecordThread.run with its clock.
VARIABLES
    pace_pc,      \* "none" (not under study), "test" (line 801), "grab" (lines
                  \* 802-812), "sleep" (line 816), "done"
    pace          \* the loop's flag, clock readings and counters

paceVars == <<pace_pc, pace>>

\* --------------------------------------------------- ScreenRecorder (GUI)
\* start_recording, lines 1303-1306: "if not self.frames: ... self.audio_file = None"
AudioFileAtStart(cumulative, af) == IF cumulative = <<>> THEN None ELSE af

\* start_recording(region); record_audio is check_audio.isChecked()
StartRecordingIn(regions) ==
    /\ gui_pc = "idle"
    /\ Len(rt) < MaxThreads
    /\ \E region \in regions, record_audio \in BOOLEAN :
          /\ rt' = Append(rt, NewRecordThread(region, record_audio))
          /\ at' = Append(at, NoAudioThread)
    /\ audio_file' = AudioFileAtStart(frames, audio_file)
    /\ is_recording' = TRUE
    /\ record_thread' = Len(rt) + 1
    /\ UNCHANGED <<gui_pc, stop_finish, frames, btn_export, grabbed,
                   exportVars, audioVars, paceVars>>

\* start_recording with the region the selector delivered
StartRecording == StartRecordingIn(Regions)

\* a region of another size, as a reselect can deliver
OtherRegions == {[w |-> 1000, h |-> 750]}

\* start_recording with a region of another size
StartRecordingElsewhere == StartRecordingIn(OtherRegions)

\* stop_recording, line 1344-1346: "if finish and self.frames: ... setEnabled(True)"
ExportEnabledAfterStop(finish, cumulative, enabled) ==
    IF finish /\ cumulative # <<>> THEN TRUE ELSE enabled

\* stop_recording(finish) up to record_thread.wait(): with a record_thread it
\* calls RecordThread.stop() and blocks; without one it runs to its end.
StopRecordingCall(finish) ==
    /\ gui_pc = "idle"
    /\ IF record_thread # None
         THEN /\ rt[record_thread].merges < MaxMerges
              /\ rt' = [rt EXCEPT ![record_thread].is_recording = FALSE,
                                  ![record_thread].finish = finish]
              /\ gui_pc' = "stop_wait"
              /\ stop_finish' = finish
              /\ UNCHANGED <<is_recording, btn_export>>
         ELSE /\ is_recording' = FALSE
              /\ btn_export' = ExportEnabledAfterStop(finish, frames, btn_export)
              /\ UNCHANGED <<rt, gui_pc, stop_finish>>
    /\ UNCHANGED <<frames, record_thread, audio_file, at, grabbed,
                   exportVars, audioVars, paceVars>>

\* the floating panel's stop button: stop_recording()
StopRecording == StopRecordingCall(TRUE)

\* reselect_region: stop_recording(finish=False), then the selector is shown,
\* whose confirmation is a later start_recording
ReselectRegion == StopRecordingCall(FALSE)

\* a merge that keeps the sub-run's frames alone
MergeFramesReplacing(cumulative, subrun) == subrun

\* a merge that puts the sub-run's frames in front
MergeFramesInFront(cumulative, subrun) == subrun \o cumulative

\* stop_recording, line 1334: self.frames.extend(self.record_thread.frames)
MergeFrames(cumulative, subrun) == cumulative \o subrun

\* line 1418 hands self.frames itself to the ExportThread, and line 1334
\* extends that list in place: a job created by start_export sees the merge
SharedFrames(job, pc, cumulative) ==
    IF pc = "none" THEN job ELSE [job EXCEPT !.frames = cumulative]

\* stop_recording from the return of record_thread.wait() to its end
StopRecordingJoin ==
    /\ gui_pc = "stop_wait"
    /\ rt[record_thread].pc = "done"
    /\ frames' = MergeFrames(frames, rt[record_thread].frames)
    /\ audio_file' = rt[record_thread].audio_file
    /\ rt' = [rt EXCEPT ![record_thread].merges = @ + 1]
    /\ is_recording' = FALSE
    /\ btn_export' = ExportEnabledAfterStop(stop_finish, frames', btn_export)
    /\ gui_pc' = "idle"
    /\ ex_job' = SharedFrames(ex_job, ex_pc, frames')
    /\ UNCHANGED <<stop_finish, record_thread, at, grabbed,
                   ex_pc, ex_i, ex_rgb, ex_progress, ex_finished, ex_mux, fs,
                   ex_loc, ex_orphaned, audioVars, paceVars>>

\* ------------------------------------------------------------ RecordThread
\* RecordThread.run, lines 788-795
RecordRunBegin(t) ==
    /\ rt[t].pc = "start"
    /\ rt' = [rt EXCEPT ![t].is_recording = TRUE, ![t].frames = <<>>,
                        ![t].count = 0, ![t].pc = "loop"]
    /\ at' = IF rt[t].record_audio
               THEN [at EXCEPT ![t] = NewAudioThread]
               ELSE at
    /\ UNCHANGED <<gui_pc, stop_finish, frames, is_recording, record_thread,
                   audio_file, btn_export, grabbed,
                   exportVars, audioVars, paceVars>>

\* one tick, lines 804-812: the frame list, the count and the notifications
\* after a grab that succeeded (ok) or raised (CountAfterAnyTick: a count
\* that is incremented before the grab; EmittedAfterAnyTick: a notification
\* sent whatever the grab did)
FramesAfterTick(subrun, frame, ok) == IF ok THEN Append(subrun, frame) ELSE subrun
CountAfterAnyTick(count, ok) == count + 1
CountAfterTick(count, ok) == IF ok THEN count + 1 ELSE count
EmittedAfterAnyTick(emitted, count, ok) == Append(emitted, count)
EmittedAfterTick(emitted, count, ok) == IF ok THEN Append(emitted, count) ELSE emitted

\* one iteration of "while self.is_recording", lines 801-816; slow: the tick
\* took at least the interval, so the loop does not sleep
RecordTick(t) ==
    /\ rt[t].pc = "loop"
    /\ rt[t].is_recording
    /\ \E ok \in BOOLEAN, slow \in BOOLEAN :
          /\ ok => Len(grabbed) < MaxFrames
          /\ LET frame == [id |-> Len(grabbed) + 1, w |-> rt[t].region.w,
                                h |-> rt[t].region.h]
                 count == CountAfterTick(rt[t].count, ok)
             IN  /\ rt' = [rt EXCEPT
                              ![t].frames = FramesAfterTick(@, frame, ok),
                              ![t].count = count,
                              ![t].emitted = EmittedAfterTick(@, count, ok),
                              ![t].pc = IF slow THEN "loop" ELSE "sleep"]
                 /\ grabbed' = IF ok THEN Append(grabbed, frame) ELSE grabbed
    /\ UNCHANGED <<gui_pc, stop_finish, frames, is_recording, record_thread,
                   audio_file, btn_export, at,
                   exportVars, audioVars, paceVars>>

\* time.sleep(interval - elapsed) returns, line 816
RecordWake(t) ==
    /\ rt[t].pc = "sleep"
    /\ rt' = [rt EXCEPT ![t].pc = "loop"]
    /\ UNCHANGED <<gui_pc, stop_finish, frames, is_recording, record_thread,
                   audio_file, btn_export, at, grabbed,
                   exportVars, audioVars, paceVars>>

\* the loop test fails, lines 801 and 819-826: with an audio thread, stop it and
\* wait for it; without one, emit recording_stopped and return
RecordLoopExit(t) ==
    /\ rt[t].pc = "loop"
    /\ ~rt[t].is_recording
    /\ IF at[t].pc # "none"
         THEN /\ at' = [at EXCEPT ![t].is_recording = FALSE, ![t].stopped = TRUE]
              /\ rt' = [rt EXCEPT ![t].pc = "audio_wait"]
         ELSE /\ rt' = [rt EXCEPT ![t].pc = "done", ![t].stopped_emitted = @ + 1]
              /\ UNCHANGED at
    /\ UNCHANGED <<gui_pc, stop_finish, frames, is_recording, record_thread,
                   audio_file, btn_export, grabbed,
                   exportVars, audioVars, paceVars>>

\* line 823: the temporary wav of RecordThread t
AudioPath(t) == t

\* audio_thread.wait() returns, lines 821-826; saved: save_to_file wrote the file
RecordAudioJoin(t) ==
    /\ rt[t].pc = "audio_wait"
    /\ at[t].pc = "done"
    /\ \E saved \in BOOLEAN :
          rt' = [rt EXCEPT ![t].audio_file = AudioPath(t),
                           ![t].saved = saved,
                           ![t].wav = saved,
                           ![t].stopped_emitted = @ + 1,
                           ![t].pc = "done"]
    /\ UNCHANGED <<gui_pc, stop_finish, frames, is_recording, record_thread,
                   audio_file, btn_export, at, grabbed,
                   exportVars, audioVars, paceVars>>

\* ------------------------------------------------------- AudioRecordThread
\* AudioRecordThread.run, lines 614-696: the flag is set, the streams are opened
AudioRunBegin(t) ==
    /\ at[t].pc = "start"
    /\ at' = [at EXCEPT ![t].is_recording = TRUE, ![t].pc = "run"]
    /\ UNCHANGED <<gui_pc, stop_finish, frames, is_recording, record_thread,
                   audio_file, btn_export, rt, grabbed,
                   exportVars, audioVars, paceVars>>

\* "while self.is_recording: time.sleep(0.1)" ends, the streams are closed
AudioLoopExit(t) ==
    /\ at[t].pc = "run"
    /\ ~at[t].is_recording
    /\ at' = [at EXCEPT ![t].pc = "done"]
    /\ UNCHANGED <<gui_pc, stop_finish, frames, is_recording, record_thread,
                   audio_file, btn_export, rt, grabbed,
                   exportVars, audioVars, paceVars>>

\* system_callback (lines 653-658) and mic_callback (lines 683-685), invoked by
\* the audio library on its own thread while the source's stream is open: the
\* chunk is appended if the flag is set
AudioCallback(t, source) ==
    /\ at[t].pc = "run"
    /\ at[t].is_recording
    /\ at[t][source] < MaxChunks
    /\ at' = [at EXCEPT ![t][source] = @ + 1,
                        ![t].late = @ \/ at[t].stopped]
    /\ UNCHANGED <<gui_pc, stop_finish, frames, is_recording, record_thread,
                   audio_file, btn_export, rt, grabbed,
                   exportVars, audioVars, paceVars>>

\* a step of RecordThread t or of its AudioRecordThread
WorkerStep(t) ==
    /\ t \in Threads
    /\ \/ RecordRunBegin(t)
       \/ RecordTick(t)
       \/ RecordWake(t)
       \/ RecordLoopExit(t)
       \/ RecordAudioJoin(t)
       \/ AudioRunBegin(t)
       \/ AudioLoopExit(t)

SessionNext ==
    \/ StartRecording
    \/ StopRecording
    \/ ReselectRegion
    \/ StopRecordingJoin
    \/ \E t \in Threads : RecordRunBegin(t)
    \/ \E t \in Threads : RecordTick(t)
    \/ \E t \in Threads : RecordWake(t)
    \/ \E t \in Threads : RecordLoopExit(t)
    \/ \E t \in Threads : RecordAudioJoin(t)
    \/ \E t \in Threads : AudioRunBegin(t)
    \/ \E t \in Threads : AudioLoopExit(t)

\* ------------------------------------------------------------ ExportThread
\* frames an export job is given in ExportSpec
MaxExportFrames == 7

Absent == [kind |-> "absent", frames |-> <<>>]
Exists(files, name) == files[name].kind # "absent"

NoJob == [frames |-> <<>>, fps |-> 30, fmt |-> "mp4", gif_fps |-> 10,
          audio_file |-> None]

\* run has not yet assigned its locals
\* no exception was caught
NoException == ""

\* the messages of the exceptions an encoding statement can raise
ExceptionMessages == {"disk full", "codec rejected"}

NoLocals == [total |-> 0, selected |-> <<>>, e |-> NoException]

ExportIdle ==
    /\ ex_pc = "none"
    /\ ex_job = NoJob
    /\ ex_i = 0
    /\ ex_rgb = <<>>
    /\ ex_progress = <<>>
    /\ ex_finished = <<>>
    /\ ex_mux = "none"
    /\ fs = [target |-> Absent, temp_video |-> Absent, audio |-> Absent]
    /\ ex_loc = NoLocals
    /\ ex_orphaned = FALSE

Max(a, b) == IF a >= b THEN a ELSE b

\* a step that rounds the ratio up
GifStepRoundedUp(fps, gif_fps) == Max(1, (fps + gif_fps - 1) \div gif_fps)

\* line 856: step = max(1, self.fps // self.gif_fps)
GifStep(fps, gif_fps) == Max(1, fps \div gif_fps)

\* line 857: self.frames[::step]
Slice(s, step) ==
    [k \in 1..((Len(s) + step - 1) \div step) |-> s[(k - 1) * step + 1]]

Selected(job) == Slice(job.frames, GifStep(job.fps, job.gif_fps))

\* a / b rounded to the nearest integer, a tie to the even one (cv2.resize
\* rounds the scaled size with cvRound)
RoundDiv(a, b) ==
    LET q == a \div b
        r == a % b
    IN  IF 2 * r < b THEN q
        ELSE IF 2 * r > b THEN q + 1
        ELSE IF q % 2 = 0 THEN q ELSE q + 1

\* a resize of the width alone
GifScaleWidthOnly(frame) == IF frame.w > 1000 THEN [frame EXCEPT !.w = 1000] ELSE frame

\* lines 863-866: a frame wider than 1000 is resized by scale = 1000 / w
GifScale(frame) ==
    IF frame.w > 1000
      THEN [frame EXCEPT !.w = RoundDiv(frame.w * 1000, frame.w),
                         !.h = RoundDiv(frame.h * 1000, frame.w)]
      ELSE frame

\* lines 868, 896, 908: int((i+1)/total * scale), i counted from 0
Progress(i, total, scale) == ((i + 1) * scale) \div total

\* a run that does not look at the number of frames
NoFramesUnchecked(total) == FALSE

\* line 850: "if total == 0"
NoFrames(total) == total = 0

\* a run that takes no format for a gif
IsGifNever(fmt) == FALSE

\* line 854: "if self.fmt == 'gif'"
IsGif(fmt) == fmt = "gif"

\* line 875: "if self.audio_file and os.path.exists(self.audio_file)"
HasAudio(job, files) == job.audio_file # None /\ Exists(files, "audio")

\* cv2.VideoWriter(path, fourcc, fps, (w, h)): the file is created, empty
OpenWriter(files, name) == [files EXCEPT ![name] = [kind |-> "video", frames |-> <<>>]]

\* out.write(frame): a writer encodes the frames that have the size it was
\* opened with (that of frames[0], line 872) and drops the others
WriteFrame(files, name, frame, first) ==
    IF frame.w = first.w /\ frame.h = first.h
      THEN [files EXCEPT ![name].frames = Append(@, frame.id)]
      ELSE files

\* an emit that is lost
EmitFinishedLost(finished, success, msg) == finished

\* export_finished.emit(success, msg), lines 851, 880 and 882
EmitFinished(finished, success, msg) ==
    Append(finished, [success |-> success, msg |-> msg])

\* a handler that reports a fixed text
ExceptGeneric(finished, e) == EmitFinished(finished, FALSE, "error")

\* the handler of lines 881-882: export_finished.emit(False, str(e))
Except(finished, e) == EmitFinished(finished, FALSE, e)

\* ExportThread.run, lines 848-878, up to the first loop
ExportRun ==
    /\ ex_pc = "run"
    /\ IF NoFrames(Len(ex_job.frames))
         THEN /\ ex_finished' = EmitFinished(ex_finished, FALSE, "no frames")
              /\ ex_pc' = "finished"
              /\ UNCHANGED fs
         ELSE IF IsGif(ex_job.fmt)
         THEN /\ ex_pc' = "gif"
              /\ UNCHANGED <<ex_finished, fs>>
         ELSE IF Len(ex_job.frames) = 0
         THEN \* self.frames[0] raises IndexError, caught at line 881
              /\ ex_finished' = Except(ex_finished, "IndexError")
              /\ ex_pc' = "finished"
              /\ UNCHANGED fs
         ELSE IF HasAudio(ex_job, fs)
         THEN /\ ex_pc' = "audio_video"
              /\ fs' = OpenWriter(fs, "temp_video")
              /\ UNCHANGED ex_finished
         ELSE /\ ex_pc' = "video"
              /\ fs' = OpenWriter(fs, "target")
              /\ UNCHANGED ex_finished
    /\ ex_loc' = [total |-> Len(ex_job.frames),
                  selected |-> IF IsGif(ex_job.fmt) THEN Selected(ex_job) ELSE <<>>,
                  e |-> IF ~NoFrames(Len(ex_job.frames)) /\ ~IsGif(ex_job.fmt)
                           /\ Len(ex_job.frames) = 0
                          THEN "IndexError" ELSE NoException]
    /\ UNCHANGED <<ex_job, ex_i, ex_rgb, ex_progress, ex_mux, ex_orphaned,
                   sessionVars, audioVars, paceVars>>

\* one iteration of the loop of lines 860-868, over the copy made at line 857
ExportGifFrame ==
    /\ ex_pc = "gif"
    /\ ex_i < Len(ex_loc.selected)
    /\ ex_rgb' = Append(ex_rgb, GifScale(ex_loc.selected[ex_i + 1]))
    /\ ex_progress' = Append(ex_progress, Progress(ex_i, Len(ex_loc.selected), 100))
    /\ ex_i' = ex_i + 1
    /\ UNCHANGED <<ex_pc, ex_job, ex_finished, ex_mux, fs, ex_loc, ex_orphaned,
                   sessionVars, audioVars, paceVars>>

\* imageio.mimsave, line 870, and export_finished, line 880; raised: mimsave
\* raises (the target cannot be written), which run catches at lines 881-882
ExportGifSave ==
    /\ ex_pc = "gif"
    /\ ex_i = Len(ex_loc.selected)
    /\ \E raised \in BOOLEAN :
          IF raised
            THEN /\ \E e \in ExceptionMessages :
                       /\ ex_loc' = [ex_loc EXCEPT !.e = e]
                       /\ ex_finished' = Except(ex_finished, e)
                 /\ UNCHANGED fs
            ELSE /\ ex_finished' = EmitFinished(ex_finished, TRUE, "path")
                 /\ fs' = [fs EXCEPT !["target"] =
                              [kind |-> "gif",
                               frames |-> [k \in 1..Len(ex_rgb) |-> ex_rgb[k].id]]]
                 /\ UNCHANGED ex_loc
    /\ ex_pc' = "finished"
    /\ UNCHANGED <<ex_job, ex_i, ex_rgb, ex_progress, ex_mux, ex_orphaned,
                   sessionVars, audioVars, paceVars>>

\* A statement of an encoding loop raises: cvtColor or resize in the gif loop
\* (lines 861-866), out.write or out.release in _export_video_only (lines
\* 895-897) and in the first part of _export_with_audio (lines 907-909), which
\* is outside the try of line 930. The exception reaches the handler of
\* lines 881-882.
ExportRaise ==
    /\ \/ ex_pc = "gif" /\ ex_i < Len(ex_loc.selected)
       \/ ex_pc \in {"video", "audio_video"}
    /\ \E e \in ExceptionMessages :
          /\ ex_loc' = [ex_loc EXCEPT !.e = e]
          /\ ex_finished' = Except(ex_finished, e)
    /\ ex_pc' = "finished"
    /\ UNCHANGED <<ex_job, ex_i, ex_rgb, ex_progress, ex_mux, fs, ex_orphaned,
                   sessionVars, audioVars, paceVars>>

\* one iteration of the loop of _export_video_only, lines 894-896: the loop
\* runs over self.frames itself, its progress is computed against total
ExportVideoFrame ==
    /\ ex_pc = "video"
    /\ ex_i < Len(ex_job.frames)
    /\ fs' = WriteFrame(fs, "target", ex_job.frames[ex_i + 1], ex_job.frames[1])
    /\ ex_progress' = Append(ex_progress, Progress(ex_i, ex_loc.total, 100))
    /\ ex_i' = ex_i + 1
    /\ UNCHANGED <<ex_pc, ex_job, ex_rgb, ex_finished, ex_mux, ex_loc, ex_orphaned,
                   sessionVars, audioVars, paceVars>>

\* out.release(), line 897, and export_finished, line 880
ExportVideoRelease ==
    /\ ex_pc = "video"
    /\ ex_i = Len(ex_job.frames)
    /\ ex_finished' = EmitFinished(ex_finished, TRUE, "path")
    /\ ex_pc' = "finished"
    /\ UNCHANGED <<ex_job, ex_i, ex_rgb, ex_progress, ex_mux, fs, ex_loc,
                   ex_orphaned, sessionVars, audioVars, paceVars>>

\* one iteration of the loop of _export_with_audio, lines 906-908
ExportAudioVideoFrame ==
    /\ ex_pc = "audio_video"
    /\ ex_i < Len(ex_job.frames)
    /\ fs' = WriteFrame(fs, "temp_video", ex_job.frames[ex_i + 1], ex_job.frames[1])
    /\ ex_progress' = Append(ex_progress, Progress(ex_i, ex_loc.total, 80))
    /\ ex_i' = ex_i + 1
    /\ UNCHANGED <<ex_pc, ex_job, ex_rgb, ex_finished, ex_mux, ex_loc, ex_orphaned,
                   sessionVars, audioVars, paceVars>>

\* out.release(), line 909; the mux command is built, lines 911-928
ExportAudioVideoRelease ==
    /\ ex_pc = "audio_video"
    /\ ex_i = Len(ex_job.frames)
    /\ ex_pc' = "mux"
    /\ UNCHANGED <<ex_job, ex_i, ex_rgb, ex_progress, ex_finished, ex_mux, fs,
                   ex_loc, ex_orphaned, sessionVars, audioVars, paceVars>>

\* os.remove(name)
Remove(files, name) == [files EXCEPT ![name] = Absent]

\* shutil.copy(src, dst), for a src that exists
Copy(files, src, dst) == [files EXCEPT ![dst] = files[src]]

\* what the mux process leaves at the target path (it is run with -y): on
\* success the muxed file; on a non-zero exit nothing, or an unusable partial file
MuxOutput(files, outcome, partial) ==
    IF outcome = "ok"
      THEN [files EXCEPT !["target"] =
               [kind |-> "muxed", frames |-> files["temp_video"].frames]]
      ELSE IF partial
      THEN [files EXCEPT !["target"] = [kind |-> "partial", frames |-> <<>>]]
      ELSE files

\* lines 936-939: the temporary video and the wav are removed
CleanUp(files) ==
    LET f1 == IF Exists(files, "temp_video") THEN Remove(files, "temp_video") ELSE files
    IN  IF Exists(f1, "audio") THEN Remove(f1, "audio") ELSE f1

\* an except branch that only logs
ExceptFallbackLogOnly(files) == files

\* lines 945-950, the except branch: the temporary video, if it exists, is
\* copied to the target path
ExceptFallback(files) ==
    IF Exists(files, "temp_video") THEN Copy(files, "temp_video", "target") ELSE files

\* lines 941-944: on a non-zero return code shutil.copy(temp_video, self.path),
\* which raises FileNotFoundError into the except branch when temp_video is gone
ReturnCodeFallback(files, outcome) ==
    IF outcome = "ok" THEN files
    ELSE IF Exists(files, "temp_video") THEN Copy(files, "temp_video", "target")
    ELSE ExceptFallback(files)

\* the try statement of lines 930-950 as a whole
MuxFiles(files, outcome, partial) ==
    IF outcome = "launch_fail"
      THEN ExceptFallback(files)
      ELSE ReturnCodeFallback(CleanUp(MuxOutput(files, outcome, partial)), outcome)

\* line 933: progress 100 is emitted once subprocess.run has returned
MuxProgress(progress, outcome) ==
    IF outcome = "launch_fail" THEN progress ELSE Append(progress, 100)

\* the wav of the sub-run whose audio path the job was given, after the job's
\* clean-up
WavsAfterMux(threads, job, files) ==
    IF job.audio_file \in 1..Len(threads)
      THEN [threads EXCEPT ![job.audio_file].wav = Exists(files, "audio")]
      ELSE threads

\* subprocess.run and what follows it, lines 930-950, then export_finished, line 880
ExportMux ==
    /\ ex_pc = "mux"
    /\ \E outcome \in {"ok", "nonzero", "launch_fail"}, partial \in BOOLEAN :
          /\ partial => outcome = "nonzero"
          /\ ex_mux' = outcome
          /\ fs' = MuxFiles(fs, outcome, partial)
          /\ ex_progress' = MuxProgress(ex_progress, outcome)
    /\ ex_finished' = EmitFinished(ex_finished, TRUE, "path")
    /\ ex_pc' = "finished"
    /\ rt' = WavsAfterMux(rt, ex_job, fs')
    /\ UNCHANGED <<ex_job, ex_i, ex_rgb, ex_loc, ex_orphaned,
                   gui_pc, stop_finish, frames, is_recording, record_thread,
                   audio_file, btn_export, at, grabbed, audioVars, paceVars>>

ExportNext ==
    \/ ExportRun
    \/ ExportGifFrame
    \/ ExportGifSave
    \/ ExportRaise
    \/ ExportVideoFrame
    \/ ExportVideoRelease
    \/ ExportAudioVideoFrame
    \/ ExportAudioVideoRelease
    \/ ExportMux

\* --------------------------------------------- ScreenRecorder (export tab)
\* the settings of the export tab in the session: two of the formats of
\* combo_fmt, the initial capture rate and the initial gif rate
AppFormats == {"mp4", "gif"}
AppFps == {30}
AppGifFps == {10}

WavFile == [kind |-> "wav", frames |-> <<>>]

\* the files a job of start_export finds: a fresh target path, and at the audio
\* path it is given the wav of that sub-run, if it exists
FilesAtStart(af) ==
    [target |-> Absent, temp_video |-> Absent,
     audio |-> IF af # None /\ rt[af].wav THEN WavFile ELSE Absent]

ExportRunning == ex_pc \in {"run", "gif", "video", "audio_video", "mux"}

\* start_export, lines 1398-1421, the clicked slot of btn_export
StartExport ==
    /\ gui_pc = "idle"
    /\ btn_export
    /\ frames # <<>>
    /\ \E fmt \in AppFormats, fps \in AppFps, gif_fps \in AppGifFps :
          /\ ex_job' = [frames |-> frames, fps |-> fps, fmt |-> fmt,
                        gif_fps |-> gif_fps,
                        audio_file |-> IF fmt = "gif" THEN None ELSE audio_file]
          /\ fs' = FilesAtStart(IF fmt = "gif" THEN None ELSE audio_file)
    /\ btn_export' = FALSE
    /\ ex_pc' = "run"
    /\ ex_i' = 0
    /\ ex_rgb' = <<>>
    /\ ex_progress' = <<>>
    /\ ex_finished' = <<>>
    /\ ex_mux' = "none"
    /\ ex_loc' = NoLocals
    /\ ex_orphaned' = (ex_orphaned \/ ExportRunning)
    /\ UNCHANGED <<gui_pc, stop_finish, frames, is_recording, record_thread,
                   audio_file, rt, at, grabbed, audioVars, paceVars>>

\* on_export_done, lines 1423-1429, the slot of export_finished
OnExportDone ==
    /\ gui_pc = "idle"
    /\ ex_pc = "finished"
    /\ btn_export' = TRUE
    /\ ex_pc' = "delivered"
    /\ UNCHANGED <<gui_pc, stop_finish, frames, is_recording, record_thread,
                   audio_file, rt, at, grabbed,
                   ex_job, ex_i, ex_rgb, ex_progress, ex_finished, ex_mux, fs,
                   ex_loc, ex_orphaned, audioVars, paceVars>>

\* the capture rates of combo_fps (line 1048) and gif rates within and beyond
\* the range of spin_gif_fps (line 1111)
FpsChoices == {15, 24, 30, 60}
GifFpsChoices == {1, 10, 30, 40}
Formats == {"mp4", "gif", "avi", "webm"}

FramesOfSize(n, region) == [i \in 1..n |-> [id |-> i, w |-> region.w, h |-> region.h]]

\* an ExportThread constructed on any frame list, format and rates, with no
\* audio path, with the path of an existing wav, or with a path whose file is gone
ExportInit ==
    /\ ex_pc = "run"
    /\ \E n \in 0..MaxExportFrames, region \in FrameSizes, fps \in FpsChoices,
          fmt \in Formats, gif_fps \in GifFpsChoices, af \in {None, 1} :
          ex_job = [frames |-> FramesOfSize(n, region), fps |-> fps, fmt |-> fmt,
                    gif_fps |-> gif_fps, audio_file |-> af]
    /\ ex_i = 0
    /\ ex_rgb = <<>>
    /\ ex_progress = <<>>
    /\ ex_finished = <<>>
    /\ ex_mux = "none"
    /\ ex_loc = NoLocals
    /\ ex_orphaned = FALSE
    /\ \E wav \in BOOLEAN :
          /\ wav => ex_job.audio_file # None
          /\ fs = [target |-> Absent, temp_video |-> Absent,
                   audio |-> IF wav THEN [kind |-> "wav", frames |-> <<>>] ELSE Absent]

\* ------------------------------------------- AudioRecordThread.save_to_file
\* rows (sample frames) in one chunk
MaxRows == 2

\* the channel counts a loopback device (line 650) and the microphone (line
\* 681) may be opened with
SystemChannels == {1, 2, 6}

\* sample_rate, the default of __init__ (line 602), with which RecordThread
\* creates the thread (line 794)
SampleRate == 44100

\* defaultSampleRate of a loopback device (line 651)
DeviceRates == {44100, 48000}

\* the rate a source's stream was opened with: the device's default rate for
\* the system stream (lines 651, 663), self.sample_rate for the microphone
\* (line 689)
CaptureRate(thread, source) ==
    IF source = "system" THEN thread.system_rate ELSE thread.sample_rate

\* the rate sf.write declares for the file (line 768)
WrittenRate(thread) == thread.sample_rate
MicChannels == {1, 2}

\* the sample a source delivers as row k (counted over the whole run) of
\* channel c: an even number that tells source, row and channel apart
Sample(source, k, c) == (IF source = "system" THEN 0 ELSE 1000) + 20 * k + 2 * c

RECURSIVE SumTo(_, _)
SumTo(sizes, n) == IF n = 0 THEN 0 ELSE SumTo(sizes, n - 1) + sizes[n]

\* the chunks of a source that delivered chunks of the given sizes: what the
\* callbacks of lines 653-658 and 683-685 append, each a 2-D array
ChunksOf(source, sizes, ch) ==
    [j \in 1..Len(sizes) |->
        [ndim |-> 2, ch |-> ch,
         rows |-> [k \in 1..sizes[j] |->
                      [c \in 1..ch |-> Sample(source, SumTo(sizes, j - 1) + k, c)]]]]

ChunkSizes == UNION {[1..n -> 1..MaxRows] : n \in 0..MaxChunks}

NoArray == [ndim |-> 2, ch |-> 0, rows |-> <<>>]

\* AudioRecordThread.__init__ and the locals of run (lines 618-620): p, the
\* audio host object ("none", "created", "terminated"); system_stream and
\* mic_stream ("none", "opened", "active", "closed"); system and mic, the
\* chunks in the two buffers. sys_outcome and mic_outcome tell how the set-up
\* of each source went ("pending" before it), chosen is the index of the
\* loopback device found (0: none), stopped says that stop() has been called
NewAudioRun ==
    [is_recording |-> FALSE, stopped |-> FALSE, p |-> "none",
     system_stream |-> "none", mic_stream |-> "none",
     system |-> 0, mic |-> 0,
     sys_outcome |-> "pending", mic_outcome |-> "pending", chosen |-> 0]

AudioIdle ==
    /\ au_pc = "none"
    /\ au_thread = [system_audio_data |-> <<>>, mic_audio_data |-> <<>>,
                    system_channels |-> 2, mic_channels |-> 1,
                    sample_rate |-> SampleRate, system_rate |-> SampleRate]
    /\ au_parts = <<>>
    /\ au_write_ok = TRUE
    /\ au_ret = None
    /\ au_file = NoArray
    /\ ar_pc = "none"
    /\ ar = NewAudioRun
    /\ ar_devs = <<>>

\* a stopped AudioRecordThread whose sources delivered any chunks, or none
AudioInit ==
    /\ au_pc = "stopped"
    /\ \E sch \in SystemChannels, mch \in MicChannels,
          ssizes \in ChunkSizes, msizes \in ChunkSizes, srate \in DeviceRates :
          au_thread = [system_audio_data |-> ChunksOf("system", ssizes, sch),
                       mic_audio_data |-> ChunksOf("mic", msizes, mch),
                       system_channels |-> sch, mic_channels |-> mch,
                       sample_rate |-> SampleRate, system_rate |-> srate]
    /\ au_parts = <<>>
    /\ au_write_ok \in BOOLEAN
    /\ au_ret = None
    /\ au_file = NoArray
    /\ ar_pc = "none"
    /\ ar = NewAudioRun
    /\ ar_devs = <<>>

RECURSIVE ConcatRows(_, _)
ConcatRows(chunks, n) ==
    IF n = 0 THEN <<>> ELSE ConcatRows(chunks, n - 1) \o chunks[n].rows

\* np.concatenate(chunks, axis=0), for a non-empty list of 2-D chunks
Concatenate(chunks) ==
    [ndim |-> 2, ch |-> chunks[1].ch, rows |-> ConcatRows(chunks, Len(chunks))]

\* an ensure_stereo without the branch for arrays of shape (n, 1)
EnsureStereoFlatOnly(audio) ==
    IF audio.ndim = 1
      THEN [ndim |-> 2, ch |-> 2,
            rows |-> [k \in 1..Len(audio.rows) |-> <<audio.rows[k], audio.rows[k]>>]]
      ELSE audio

\* ensure_stereo, lines 732-738
EnsureStereo(audio) ==
    IF audio.ndim = 1
      THEN [ndim |-> 2, ch |-> 2,
            rows |-> [k \in 1..Len(audio.rows) |-> <<audio.rows[k], audio.rows[k]>>]]
      ELSE IF audio.ch = 1
      THEN [ndim |-> 2, ch |-> 2,
            rows |-> [k \in 1..Len(audio.rows) |->
                         <<audio.rows[k][1], audio.rows[k][1]>>]]
      ELSE audio

\* lines 741-752: audio_parts, the system source first
AudioParts(thread) ==
    (IF thread.system_audio_data # <<>>
       THEN <<[source |-> "system",
               audio |-> EnsureStereo(Concatenate(thread.system_audio_data))]>>
       ELSE <<>>)
    \o
    (IF thread.mic_audio_data # <<>>
       THEN <<[source |-> "mic",
               audio |-> EnsureStereo(Concatenate(thread.mic_audio_data))]>>
       ELSE <<>>)

Min(a, b) == IF a <= b THEN a ELSE b

\* lines 762-765 for two parts: np.mean of the parts cut to the shorter one,
\* which raises when their channel counts differ
MeanRaises(parts) == parts[1].audio.ch # parts[2].audio.ch

Mean(parts) ==
    LET min_len == Min(Len(parts[1].audio.rows), Len(parts[2].audio.rows))
    IN  [ndim |-> 2, ch |-> parts[1].audio.ch,
         rows |-> [k \in 1..min_len |->
                      [c \in 1..parts[1].audio.ch |->
                          (parts[1].audio.rows[k][c] + parts[2].audio.rows[k][c]) \div 2]]]

\* save_to_file, lines 729-771
SaveToFile ==
    /\ au_pc = "stopped"
    /\ au_pc' = "returned"
    /\ au_parts' = AudioParts(au_thread)
    /\ IF au_parts' = <<>>
         THEN au_ret' = None /\ au_file' = au_file
         ELSE IF Len(au_parts') = 2 /\ MeanRaises(au_parts')
         THEN au_ret' = None /\ au_file' = au_file
         ELSE IF ~au_write_ok
         THEN au_ret' = None /\ au_file' = au_file
         ELSE /\ au_ret' = 1
              /\ au_file' = IF Len(au_parts') = 1 THEN au_parts'[1].audio
                                                   ELSE Mean(au_parts')
    /\ UNCHANGED <<au_thread, au_write_ok, ar_pc, ar, ar_devs,
                   sessionVars, exportVars, paceVars>>

\* ------------------------------------------- AudioRecordThread.run, in steps
\* A device of the audio host, as far as run reads its name: suffix, the name
\* ends with "[Loopback]"; word, the lower-cased name contains "loopback";
\* has_default, the name contains the name of the default output device. A
\* name that ends with "[Loopback]" contains "loopback" once lower-cased.
Devices ==
    {d \in [suffix : BOOLEAN, word : BOOLEAN, has_default : BOOLEAN] :
        d.suffix => d.word}

RECURSIVE DeviceListsOf(_)
DeviceListsOf(n) ==
    IF n = 0 THEN {<<>>}
    ELSE DeviceListsOf(n - 1) \cup
         {Append(l, d) : l \in {x \in DeviceListsOf(n - 1) : Len(x) = n - 1},
                         d \in Devices}

DeviceLists == DeviceListsOf(MaxDevices)

\* the test of line 636
NamedLoopback(dev) == dev.suffix \/ dev.word

\* the tests of lines 636-637
MatchesDefault(dev) == NamedLoopback(dev) /\ dev.has_default

\* the test of line 645
AnyLoopback(dev) == dev.word

\* the loop of lines 634-639, which breaks at the first device passing its
\* tests; 0 stands for loopback_device = None
FirstMatchingDefault(devs) ==
    IF \E i \in 1..Len(devs) : MatchesDefault(devs[i])
    THEN CHOOSE i \in 1..Len(devs) :
             MatchesDefault(devs[i]) /\ \A j \in 1..(i - 1) : ~MatchesDefault(devs[j])
    ELSE 0

\* the loop of lines 643-647
FirstAnyLoopback(devs) ==
    IF \E i \in 1..Len(devs) : AnyLoopback(devs[i])
    THEN CHOOSE i \in 1..Len(devs) :
             AnyLoopback(devs[i]) /\ \A j \in 1..(i - 1) : ~AnyLoopback(devs[j])
    ELSE 0

\* the second loop alone
FindAnyLoopback(devs) == FirstAnyLoopback(devs)

\* lines 633-647
FindLoopback(devs) ==
    LET matching == FirstMatchingDefault(devs)
    IN  IF matching # 0 THEN matching ELSE FirstAnyLoopback(devs)

\* How the set-up of the system source can go: the source is switched off or
\* pyaudiowpatch is missing (line 624); PyAudio() raises; a query of the host
\* raises; p.open raises; start_stream raises; everything succeeds
SystemOutcomes ==
    {"unavailable", "host_fail", "query_fail", "open_fail", "start_fail", "ok"}

\* lines 624-675
SystemSetup(a, devs, outcome) ==
    LET dev == FindLoopback(devs)
    IN  CASE outcome \in {"unavailable", "host_fail"} ->
                 [a EXCEPT !.sys_outcome = outcome]
          [] outcome = "query_fail" ->
                 [a EXCEPT !.sys_outcome = outcome, !.p = "created"]
          [] outcome \in {"open_fail", "start_fail", "ok"} /\ dev = 0 ->
                 [a EXCEPT !.sys_outcome = "no_device", !.p = "created"]
          [] outcome = "open_fail" /\ dev # 0 ->
                 [a EXCEPT !.sys_outcome = outcome, !.p = "created",
                           !.chosen = dev]
          [] outcome = "start_fail" /\ dev # 0 ->
                 [a EXCEPT !.sys_outcome = outcome, !.p = "created",
                           !.chosen = dev, !.system_stream = "opened"]
          [] outcome = "ok" /\ dev # 0 ->
                 [a EXCEPT !.sys_outcome = outcome, !.p = "created",
                           !.chosen = dev, !.system_stream = "active"]

\* How the set-up of the microphone can go: the source is switched off or
\* sounddevice is missing (line 678); query_devices raises; the default input
\* has no channel (line 687); InputStream raises; start raises; success
MicOutcomes ==
    {"unavailable", "query_fail", "no_channels", "open_fail", "start_fail", "ok"}

\* lines 678-696
MicSetup(a, outcome) ==
    CASE outcome \in {"unavailable", "query_fail", "no_channels", "open_fail"} ->
             [a EXCEPT !.mic_outcome = outcome]
      [] outcome = "start_fail" ->
             [a EXCEPT !.mic_outcome = outcome, !.mic_stream = "opened"]
      [] outcome = "ok" ->
             [a EXCEPT !.mic_outcome = outcome, !.mic_stream = "active"]

\* a failure of the system source skipping the microphone
PcAfterSystemFailureWaits(outcome) == IF outcome = "ok" THEN "mic" ELSE "wait"

\* The statement run reaches after the system block: the except of line 674
\* is inside the block, so every outcome goes on to the microphone (line 678)
PcAfterSystem(outcome) == "mic"

\* lines 614-620
AudioThreadStart ==
    /\ ar_pc = "start"
    /\ ar_pc' = "system"
    /\ ar' = [ar EXCEPT !.is_recording = TRUE, !.system = 0, !.mic = 0]
    /\ UNCHANGED <<ar_devs, au_pc, au_thread, au_parts, au_write_ok, au_ret,
                   au_file, sessionVars, exportVars, paceVars>>

\* lines 624-675
OpenSystemSource ==
    /\ ar_pc = "system"
    /\ \E outcome \in SystemOutcomes :
          /\ ar' = SystemSetup(ar, ar_devs, outcome)
          /\ ar_pc' = PcAfterSystem(ar'.sys_outcome)
    /\ UNCHANGED <<ar_devs, au_pc, au_thread, au_parts, au_write_ok, au_ret,
                   au_file, sessionVars, exportVars, paceVars>>

\* lines 678-696
OpenMicSource ==
    /\ ar_pc = "mic"
    /\ ar_pc' = "wait"
    /\ \E outcome \in MicOutcomes : ar' = MicSetup(ar, outcome)
    /\ UNCHANGED <<ar_devs, au_pc, au_thread, au_parts, au_write_ok, au_ret,
                   au_file, sessionVars, exportVars, paceVars>>

\* system_callback (lines 653-658), called by the host while the stream runs
system_callback ==
    /\ ar_pc # "none"
    /\ ar.system_stream = "active"
    /\ ar.is_recording
    /\ ar.system < MaxChunks
    /\ ar' = [ar EXCEPT !.system = @ + 1]
    /\ UNCHANGED <<ar_pc, ar_devs, au_pc, au_thread, au_parts, au_write_ok,
                   au_ret, au_file, sessionVars, exportVars, paceVars>>

\* mic_callback (lines 683-685)
mic_callback ==
    /\ ar_pc # "none"
    /\ ar.mic_stream = "active"
    /\ ar.is_recording
    /\ ar.mic < MaxChunks
    /\ ar' = [ar EXCEPT !.mic = @ + 1]
    /\ UNCHANGED <<ar_pc, ar_devs, au_pc, au_thread, au_parts, au_write_ok,
                   au_ret, au_file, sessionVars, exportVars, paceVars>>

\* stop (lines 724-725), which RecordThread.run calls once (line 820)
AudioThreadStop ==
    /\ ar_pc # "none"
    /\ ~ar.stopped
    /\ ar' = [ar EXCEPT !.is_recording = FALSE, !.stopped = TRUE]
    /\ UNCHANGED <<ar_pc, ar_devs, au_pc, au_thread, au_parts, au_write_ok,
                   au_ret, au_file, sessionVars, exportVars, paceVars>>

\* the loop of lines 699-700 finds the flag cleared
AudioWaitExit ==
    /\ ar_pc = "wait"
    /\ ~ar.is_recording
    /\ ar_pc' = "closing"
    /\ UNCHANGED <<ar, ar_devs, au_pc, au_thread, au_parts, au_write_ok,
                   au_ret, au_file, sessionVars, exportVars, paceVars>>

\* One try of the finally block (lines 706-711, 712-717): stop and close are
\* in the same try, so a stop that raises leaves the stream as it was and
\* skips close; a stopped stream that is not closed is "opened"
StopAndClose(stream, stop_raises, close_raises) ==
    IF stream = "none" THEN "none"
    ELSE IF stop_raises THEN stream
    ELSE IF close_raises THEN "opened"
    ELSE "closed"

\* lines 718-722: terminate closes the streams that p opened, then releases
\* the host
Terminate(a, raises) ==
    IF a.p = "none" \/ raises THEN a
    ELSE [a EXCEPT !.p = "terminated",
                   !.system_stream = IF @ = "none" THEN "none" ELSE "closed"]

\* the finally block, lines 704-722
AudioFinally ==
    /\ ar_pc = "closing"
    /\ ar_pc' = "returned"
    /\ \E sys_stop, sys_close, mic_stop, mic_close, term \in BOOLEAN :
          ar' = Terminate(
                    [ar EXCEPT !.system_stream = StopAndClose(@, sys_stop, sys_close),
                               !.mic_stream = StopAndClose(@, mic_stop, mic_close)],
                    term)
    /\ UNCHANGED <<ar_devs, au_pc, au_thread, au_parts, au_write_ok, au_ret,
                   au_file, sessionVars, exportVars, paceVars>>

AudioRunNext ==
    \/ AudioThreadStart
    \/ OpenSystemSource
    \/ OpenMicSource
    \/ system_callback
    \/ mic_callback
    \/ AudioThreadStop
    \/ AudioWaitExit
    \/ AudioFinally

\* a constructed AudioRecordThread that has been started, on a host with any
\* list of devices
AudioRunInit ==
    /\ ar_pc = "start"
    /\ ar = NewAudioRun
    /\ ar_devs \in DeviceLists
    /\ au_pc = "none"
    /\ au_thread = [system_audio_data |-> <<>>, mic_audio_data |-> <<>>,
                    system_channels |-> 2, mic_channels |-> 1,
                    sample_rate |-> SampleRate, system_rate |-> SampleRate]
    /\ au_parts = <<>>
    /\ au_write_ok = TRUE
    /\ au_ret = None
    /\ au_file = NoArray

\* ------------------------------------------- the capture loop and its clock
\* Time is counted in units of 1/120 s, in which 1/fps is a whole number for
\* every fps of the combo box (line 1048)
TicksPerSecond == 120

\* line 799: interval = 1.0 / self.fps
Interval(fps) == TicksPerSecond \div fps

\* a loop that never sleeps
SleepNever(elapsed, interval) == 0

\* lines 815-816: the time the loop asks to sleep, 0 when it does not sleep
SleepFor(elapsed, interval) ==
    IF elapsed < interval THEN interval - elapsed ELSE 0

\* fps: self.fps; is_recording: the flag; now: the time; start: the local of
\* line 802; first: the start of the first iteration; ticks: iterations begun;
\* grabs: calls of sct.grab; appended: len(self.frames); sleep_for: the
\* argument of the pending time.sleep; sleeps: calls of time.sleep returned
NewPace(fps) ==
    [fps |-> fps, is_recording |-> TRUE, now |-> 0, start |-> 0, first |-> 0,
     ticks |-> 0, grabs |-> 0, appended |-> 0, sleep_for |-> 0, sleeps |-> 0]

PaceIdle ==
    /\ pace_pc = "none"
    /\ pace = NewPace(30)

\* run has reached its loop (lines 787-799) with any fps of the combo box
PaceInit ==
    /\ pace_pc = "test"
    /\ \E fps \in FpsChoices : pace = NewPace(fps)

\* line 801, and line 802 when the flag is set
PaceTest ==
    /\ pace_pc = "test"
    /\ IF pace.is_recording
         THEN /\ pace_pc' = "grab"
              /\ pace' = [pace EXCEPT !.start = pace.now,
                                      !.first = IF pace.ticks = 0 THEN pace.now ELSE @,
                                      !.ticks = @ + 1]
         ELSE /\ pace_pc' = "done"
              /\ UNCHANGED pace
    /\ UNCHANGED <<sessionVars, exportVars, audioVars>>

\* lines 804-816 up to the call of time.sleep: the grab takes d units and
\* succeeds or raises; elapsed is measured and the sleep decided
PaceGrab ==
    /\ pace_pc = "grab"
    /\ \E d \in 0..MaxGrab, ok \in BOOLEAN :
          /\ pace.now + d <= MaxTime
          /\ LET elapsed == (pace.now + d) - pace.start
                 sleep == SleepFor(elapsed, Interval(pace.fps))
             IN  /\ pace' = [pace EXCEPT !.now = @ + d,
                                         !.grabs = @ + 1,
                                         !.appended = IF ok THEN @ + 1 ELSE @,
                                         !.sleep_for = sleep]
                 /\ pace_pc' = IF sleep > 0 THEN "sleep" ELSE "test"
    /\ UNCHANGED <<sessionVars, exportVars, audioVars>>

\* time.sleep(interval - elapsed) returns, no earlier than asked
PaceWake ==
    /\ pace_pc = "sleep"
    /\ \E over \in 0..MaxOversleep :
          /\ pace.now + pace.sleep_for + over <= MaxTime
          /\ pace' = [pace EXCEPT !.now = @ + pace.sleep_for + over,
                                  !.sleep_for = 0,
                                  !.sleeps = @ + 1]
    /\ pace_pc' = "test"
    /\ UNCHANGED <<sessionVars, exportVars, audioVars>>

\* RecordThread.stop (lines 828-829), called by stop_recording
PaceStop ==
    /\ pace_pc \in {"test", "grab", "sleep"}
    /\ pace.is_recording
    /\ pace' = [pace EXCEPT !.is_recording = FALSE]
    /\ UNCHANGED <<pace_pc, sessionVars, exportVars, audioVars>>

PaceNext ==
    \/ PaceTest
    \/ PaceGrab
    \/ PaceWake
    \/ PaceStop

\* ------------------------------------------------------ the specifications
vars == <<sessionVars, exportVars, audioVars, paceVars>>

Init == SessionInit /\ ExportIdle /\ AudioIdle /\ PaceIdle

Next == SessionNext

Spec == Init /\ [][Next]_vars

\* the session with the callbacks of the audio streams
CaptureNext ==
    \/ SessionNext
    \/ \E t \in Threads : AudioCallback(t, "system")
    \/ \E t \in Threads : AudioCallback(t, "mic")

CaptureSpec == Init /\ [][CaptureNext]_vars

\* the session with its export tab: the handlers of Spec, start_export and
\* on_export_done, and the ExportThread that start_export creates
AppNext ==
    \/ SessionNext
    \/ StartExport
    \/ OnExportDone
    \/ ExportNext

AppSpec == Init /\ [][AppNext]_vars

\* the session with a selector that can deliver regions of two sizes, and
\* start_export, up to the start of the ExportThread
ResizeNext ==
    \/ SessionNext
    \/ StartRecordingElsewhere
    \/ StartExport

ResizeSpec == Init /\ [][ResizeNext]_vars

\* The scheduler runs every started worker thread, and a GUI thread blocked in
\* wait() returns once the thread it waits for has finished; the GUI's events
\* (start, stop, reselect) are the user's and carry no fairness.
FairSpec ==
    /\ Spec
    /\ \A t \in 1..MaxThreads : WF_vars(WorkerStep(t))
    /\ WF_vars(StopRecordingJoin)

ExportSpecInit == ExportInit /\ SessionInit /\ AudioIdle /\ PaceIdle

ExportSpec == ExportSpecInit /\ [][ExportNext]_vars

\* ExportThread is a started QThread: the scheduler runs it, and each of its
\* steps returns (the mux process, once launched, exits)
ExportFairSpec == ExportSpec /\ WF_vars(ExportNext)

AudioSpecInit == AudioInit /\ SessionInit /\ ExportIdle /\ PaceIdle

AudioSpec == AudioSpecInit /\ [][SaveToFile]_vars

AudioRunSpecInit == AudioRunInit /\ SessionInit /\ ExportIdle /\ PaceIdle

AudioRunSpec == AudioRunSpecInit /\ [][AudioRunNext]_vars

PaceSpecInit == PaceInit /\ SessionInit /\ ExportIdle /\ AudioIdle

PaceSpec == PaceSpecInit /\ [][PaceNext]_vars

\* ------------------------------------------------------------------ claims
\* a RecordThread that was started and has not returned from run
Running(t) == rt[t].pc \in {"start", "loop", "sleep", "audio_wait"}

\* an AudioRecordThread that was started and has not returned from run
AudioRunning(t) == at[t].pc \in {"start", "run"}

\* C3: under every sequence of start_recording, stop_recording and
\* reselect_region calls at most one RecordThread and at most one
\* AudioRecordThread is running at any instant.
C3_AtMostOneCapture ==
    /\ Cardinality({t \in Threads : Running(t)}) <= 1
    /\ Cardinality({t \in Threads : AudioRunning(t)}) <= 1

\* the frames of the sub-runs 1..n, concatenated in sub-run order
RECURSIVE ConcatSubruns(_)
ConcatSubruns(n) == IF n = 0 THEN <<>> ELSE ConcatSubruns(n - 1) \o rt[n].frames

\* every sub-run before the current one was stopped, joined and merged once
\* before the next was started, and the current one was merged at most once
SeparatedSubruns ==
    \A t \in Threads : IF t < Len(rt) THEN rt[t].merges = 1 ELSE rt[t].merges <= 1

\* the GUI thread is in its event loop and the last sub-run has been merged
AllMerged ==
    /\ gui_pc = "idle"
    /\ record_thread # None
    /\ rt[record_thread].merges = 1

\* C4: for sub-runs separated by reselects (or stops) and ended by a stop, the
\* cumulative frame list is the concatenation, in sub-run order, of the frames
\* of each sub-run, which is the order in which the frames were grabbed.
C4_FramesAreConcatenation ==
    (SeparatedSubruns /\ AllMerged) =>
        /\ frames = ConcatSubruns(Len(rt))
        /\ frames = grabbed

\* two sub-runs with a frame each, the first ended by a reselect, the second
\* by a normal stop
C4_Witness ==
    /\ SeparatedSubruns /\ AllMerged
    /\ Len(rt) = 2
    /\ Len(rt[1].frames) = 1 /\ Len(rt[2].frames) = 1
    /\ ~rt[1].finish /\ rt[2].finish

\* stop() has been called on RecordThread t by a stop_recording that is
\* waiting for it
StopCalled(t) == gui_pc = "stop_wait" /\ record_thread = t

\* RecordThread t has left its capture loop
LoopExited(t) == t \in Threads /\ rt[t].pc \in {"audio_wait", "done"}

\* C5: after stop() has been called on a started RecordThread, its capture
\* loop eventually exits, in every interleaving of stop() with run().
C5_StopEndsLoop ==
    \A t \in 1..MaxThreads : StopCalled(t) ~> LoopExited(t)

\* C10: within a sub-run the frame_captured notifications carry 1, 2, 3, ...
\* with no gap or repeat, and the last notified value is the length of the
\* sub-run's frame list.
C10_CountsAreLengths ==
    \A t \in Threads :
        /\ rt[t].emitted = [i \in 1..Len(rt[t].frames) |-> i]
        /\ rt[t].count = Len(rt[t].frames)

\* a sub-run that has notified 1 and 2
C10_Witness == \E t \in Threads : rt[t].emitted = <<1, 2>> /\ Len(rt[t].frames) = 2

\* the intermediate video-only file of a job: the frames its writer encoded
IntermediateVideo(job) ==
    LET kept == SelectSeq(job.frames,
                          LAMBDA f : f.w = job.frames[1].w /\ f.h = job.frames[1].h)
    IN  [kind |-> "video", frames |-> [k \in 1..Len(kept) |-> kept[k].id]]

\* C1: a raster-video export with an existing wav whose mux process ran and
\* exited non-zero ends with a copy of the intermediate video-only file at the
\* target path.
C1_NonZeroExitLeavesVideo ==
    (ex_pc = "finished" /\ ex_mux = "nonzero") =>
        fs["target"] = IntermediateVideo(ex_job)

\* C2: when the mux process cannot be launched, the job ends with the
\* intermediate video-only file copied to the target path and with
\* export_finished(True, path) as its only notification.
C2_LaunchFailureFallsBack ==
    (ex_pc = "finished" /\ ex_mux = "launch_fail") =>
        /\ fs["target"] = IntermediateVideo(ex_job)
        /\ ex_finished = <<[success |-> TRUE, msg |-> "path"]>>

\* a job of several frames whose mux process could not be launched
C2_Witness ==
    /\ ex_pc = "finished" /\ ex_mux = "launch_fail"
    /\ Len(ex_job.frames) >= 2
    /\ Len(fs["target"].frames) = Len(ex_job.frames)

\* C6: a job on an empty frame list ends with export_finished(False, "no
\* frames") alone, emits no progress and touches no file at the target path.
C6_EmptyExportFailsFast ==
    (ex_pc # "none" /\ ex_job.frames = <<>>) =>
        /\ ex_pc \in {"run", "finished"}
        /\ ex_progress = <<>>
        /\ fs["target"] = Absent /\ fs["temp_video"] = Absent
        /\ ex_finished = IF ex_pc = "finished"
                           THEN <<[success |-> FALSE, msg |-> "no frames"]>>
                           ELSE <<>>

\* a finished mp4 job on an empty frame list whose wav exists
C6_Witness ==
    /\ ex_pc = "finished" /\ ex_job.frames = <<>>
    /\ ex_job.fmt = "mp4" /\ Exists(fs, "audio")

\* the step of the claim: the greatest s >= 1 with s * gif_fps <= fps, and 1
\* when there is none
FloorStep(fps, gif_fps) ==
    IF gif_fps > fps THEN 1
    ELSE CHOOSE st \in 1..fps : st * gif_fps <= fps /\ (st + 1) * gif_fps > fps

\* C9: the gif export encodes exactly the frames at indices 0, s, 2s, ... in
\* order, s = max(1, floor(fps / gif_fps)); fps 30 with gif fps 10 takes every
\* third frame, gif fps 30 and gif fps 40 take every frame.
C9_GifSelection ==
    (ex_pc = "finished" /\ ex_job.fmt = "gif" /\ ex_job.frames # <<>>
       /\ ex_finished[1].success) =>
        LET st == FloorStep(ex_job.fps, ex_job.gif_fps)
            n == Len(ex_job.frames)
            out == fs["target"].frames
        IN  /\ Len(out) = Cardinality({i \in 0..(n - 1) : i % st = 0})
            /\ \A k \in 1..Len(out) : out[k] = ex_job.frames[(k - 1) * st + 1].id
            /\ (ex_job.fps = 30 /\ ex_job.gif_fps = 10) => st = 3
            /\ (ex_job.fps = 30 /\ ex_job.gif_fps \in {30, 40}) =>
                   out = [k \in 1..n |-> ex_job.frames[k].id]

\* seven frames at 30 fps exported at gif fps 10: the frames 1, 4 and 7
C9_Witness ==
    /\ ex_pc = "finished" /\ ex_job.fmt = "gif"
    /\ ex_job.fps = 30 /\ ex_job.gif_fps = 10
    /\ fs["target"].frames = <<1, 4, 7>>

\* the number of rows a source delivered over the run
RowsOf(chunks) == Len(ConcatRows(chunks, Len(chunks)))

\* C7: save_to_file writes min(N1, N2) rows when both sources delivered data,
\* the one source's rows when one did, and returns None and writes nothing
\* when neither did (sf.write itself succeeding).
C7_MixedLength ==
    (au_pc = "returned" /\ au_write_ok) =>
        LET n1 == RowsOf(au_thread.system_audio_data)
            n2 == RowsOf(au_thread.mic_audio_data)
        IN  IF n1 > 0 /\ n2 > 0
              THEN au_ret # None /\ Len(au_file.rows) = Min(n1, n2)
              ELSE IF n1 > 0 THEN au_ret # None /\ Len(au_file.rows) = n1
              ELSE IF n2 > 0 THEN au_ret # None /\ Len(au_file.rows) = n2
              ELSE au_ret = None /\ au_file = NoArray

\* the native channel count of a source
NativeChannels(source) ==
    IF source = "system" THEN au_thread.system_channels ELSE au_thread.mic_channels

\* a mono source as two channels: row k is its k-th sample, twice
Doubled(source, n) ==
    [ndim |-> 2, ch |-> 2,
     rows |-> [k \in 1..n |-> <<Sample(source, k, 1), Sample(source, k, 1)>>]]

\* C8: a mono source enters the mix as 2 channels, both equal to its samples
\* in delivery order; written alone it is the artifact, and a mix of mono
\* sources has two identical channels.
C8_MonoIsDoubled ==
    au_pc = "returned" =>
        /\ \A i \in 1..Len(au_parts) :
              NativeChannels(au_parts[i].source) = 1 =>
                  au_parts[i].audio =
                      Doubled(au_parts[i].source, Len(au_parts[i].audio.rows))
        /\ (Len(au_parts) = 1 /\ NativeChannels(au_parts[1].source) = 1
                /\ au_ret # None) =>
               au_file = Doubled(au_parts[1].source,
                                 IF au_parts[1].source = "system"
                                   THEN RowsOf(au_thread.system_audio_data)
                                   ELSE RowsOf(au_thread.mic_audio_data))
        /\ (au_ret # None /\ \A i \in 1..Len(au_parts) :
                                 NativeChannels(au_parts[i].source) = 1) =>
               /\ au_file.ch = 2
               /\ \A k \in 1..Len(au_file.rows) :
                      au_file.rows[k][1] = au_file.rows[k][2]

\* a mono microphone that delivered two chunks, three rows in all, written alone
C8_Witness ==
    /\ au_pc = "returned" /\ au_ret # None
    /\ au_thread.mic_channels = 1
    /\ au_thread.system_audio_data = <<>>
    /\ Len(au_thread.mic_audio_data) = 2
    /\ Len(au_file.rows) = 3

\* C11: every progress value an export job emits, for every format and every
\* frame count, is an integer from 0 to 100 (it holds of a job whose frame
\* list nobody extends, as in ExportSpec).
C11_ProgressInRange ==
    \A k \in 1..Len(ex_progress) : ex_progress[k] \in 0..100

\* C12: an export job reaches its terminal state, has then emitted
\* export_finished exactly once (never one of each kind), and emits no
\* progress after it.
C12_ExactlyOneFinish ==
    /\ [](Len(ex_finished) <= 1)
    /\ []((ex_pc = "finished") <=> (Len(ex_finished) = 1))
    /\ <>(ex_pc = "finished")
    /\ [][Len(ex_finished) = 1 => ex_progress' = ex_progress]_vars

\* a gif job that emitted progress, then failed in mimsave
C12_Witness ==
    /\ ex_pc = "finished"
    /\ ex_finished = <<[success |-> FALSE, msg |-> "disk full"]>>
    /\ ex_i = Len(ex_loc.selected)
    /\ Len(ex_progress) >= 2

\* C13: while an export job is running (from the start of its ExportThread to
\* its export_finished) no recording sub-run is started and the frame list
\* the job was given is not changed by a merge.
C13_ExportHoldsFrames ==
    [][ExportRunning => (Len(rt') = Len(rt) /\ frames' = frames
                         /\ ex_job'.frames = ex_job.frames)]_vars

\* C14: a tick whose grab or conversion raises leaves the sub-run's frame list
\* and count unchanged, sends no frame_captured, and leaves the thread in its
\* capture loop with its flag still set (a tick that grabs nothing is one
\* that raised).
C14_FailedTickIsSkipped ==
    [][\A t \in Threads :
          (RecordTick(t) /\ grabbed' = grabbed) =>
              /\ rt'[t].frames = rt[t].frames
              /\ rt'[t].count = rt[t].count
              /\ rt'[t].emitted = rt[t].emitted
              /\ rt'[t].pc \in {"loop", "sleep"}
              /\ rt'[t].is_recording]_vars

\* a sub-run asleep between two ticks with no frame yet: its tick raised, and
\* it is still in its loop
C14_Witness ==
    \E t \in Threads :
        /\ rt[t].pc = "sleep" /\ rt[t].is_recording
        /\ rt[t].frames = <<>> /\ rt[t].emitted = <<>> /\ rt[t].count = 0

\* C15: in a gif export every selected frame wider than 1000 px reaches the
\* encoder 1000 px wide with its height scaled by the same factor 1000/width
\* (to the nearest pixel), and every selected frame at most 1000 px wide
\* reaches it with its dimensions unchanged.
C15_GifDownscale ==
    ex_job.fmt = "gif" =>
        \A k \in 1..Len(ex_rgb) :
            LET f == ex_loc.selected[k]
                g == ex_rgb[k]
                d == g.h * f.w - 1000 * f.h
            IN  /\ g.id = f.id
                /\ IF f.w > 1000
                     THEN g.w = 1000 /\ 2 * d <= f.w /\ 2 * d >= 0 - f.w
                     ELSE g.w = f.w /\ g.h = f.h

\* a saved gif of frames grabbed at 1920 x 1080, encoded at 1000 x 562
C15_Witness ==
    /\ ex_pc = "finished" /\ ex_job.fmt = "gif" /\ ex_finished[1].success
    /\ Len(ex_rgb) >= 2
    /\ ex_loc.selected[1].w = 1920 /\ ex_loc.selected[1].h = 1080
    /\ ex_rgb[1].w = 1000 /\ ex_rgb[1].h = 562

\* C16: a gif export never invokes the mux process and never reads, attaches
\* or removes the audio artifact, whatever audio path the job was given and
\* whether or not the wav exists.
C16_GifIgnoresAudio ==
    /\ [](ex_job.fmt = "gif" =>
            /\ ex_mux = "none"
            /\ ex_pc \in {"run", "gif", "finished"}
            /\ fs["temp_video"] = Absent
            /\ fs["target"].kind \in {"absent", "gif"})
    /\ [][ex_job.fmt = "gif" => fs'["audio"] = fs["audio"]]_vars

\* a saved gif of a job that was given the path of an existing wav
C16_Witness ==
    /\ ex_pc = "finished" /\ ex_job.fmt = "gif"
    /\ ex_job.audio_file # None /\ Exists(fs, "audio")
    /\ fs["target"].kind = "gif" /\ Len(fs["target"].frames) >= 2

\* C17: when stop_recording (normal stop or reselect) returns, the capture
\* thread it stopped and that thread's audio thread have terminated, the
\* cumulative frame list has grown by exactly the sub-run's frames, appended
\* at its end, and the session's audio path is that sub-run's audio path,
\* whatever path it held before.
C17_StopReturnsQuiesced ==
    [][StopRecordingJoin =>
          LET t == record_thread
          IN  /\ ~Running(t) /\ rt'[t].pc = "done"
              /\ ~AudioRunning(t) /\ at'[t].pc \in {"none", "done"}
              /\ frames' = frames \o rt[t].frames
              /\ audio_file' = IF rt[t].record_audio THEN AudioPath(t) ELSE None]_vars

\* two audio-enabled sub-runs of one frame each, the first ended by a
\* reselect, the second by a stop that has returned: the session holds the
\* second's audio path
C17_Witness ==
    /\ gui_pc = "idle" /\ Len(rt) = 2 /\ record_thread = 2
    /\ rt[1].record_audio /\ rt[2].record_audio
    /\ rt[1].merges = 1 /\ rt[2].merges = 1
    /\ ~rt[1].finish /\ rt[2].finish
    /\ Len(rt[1].frames) = 1 /\ Len(rt[2].frames) = 1
    /\ frames = rt[1].frames \o rt[2].frames
    /\ audio_file = AudioPath(2)

\* C18: save_to_file starts only after the audio thread has been told to stop
\* and has returned from run (its streams closed), and no chunk that a
\* callback delivers after stop() was called is appended to a source buffer.
C18_StopIsBarrier ==
    \A t \in Threads :
        /\ (rt[t].pc = "done" /\ at[t].pc # "none") =>
               (at[t].pc = "done" /\ at[t].stopped)
        /\ ~at[t].late

\* C19: whenever a job has emitted export_finished(True, path), a file written
\* by that job is at the target path.
C19_SuccessHasOutput ==
    \A k \in 1..Len(ex_finished) :
        ex_finished[k].success => Exists(fs, "target")

\* C20: a raster-video export with an audio artifact has emitted progress 100
\* when it emits export_finished, whether the mux succeeded, exited non-zero
\* or could not be launched.
C20_FullProgressBeforeFinish ==
    (ex_pc = "finished" /\ ex_mux \in {"ok", "nonzero", "launch_fail"}) =>
        \E k \in 1..Len(ex_progress) : ex_progress[k] = 100

\* C21: when a raster-video export with an audio artifact has finished, the
\* temporary video and the wav have both been removed, whether the mux
\* succeeded or a fallback was taken.
C21_TempFilesRemoved ==
    (ex_pc = "finished" /\ ex_mux \in {"ok", "nonzero", "launch_fail"}) =>
        /\ ~Exists(fs, "temp_video")
        /\ ~Exists(fs, "audio")

\* C22: in a raster-video export with an audio artifact the mux process is
\* invoked only after every frame has been written to the temporary video and
\* the writer released; every progress value emitted before the invocation is
\* at most 80 and the one after the last frame is 80 (it holds of a job whose
\* frame list nobody extends, as in ExportSpec).
C22_VideoPhaseCappedAt80 ==
    /\ ex_pc = "audio_video" =>
           \A k \in 1..Len(ex_progress) : ex_progress[k] <= 80
    /\ ex_pc = "mux" =>
           /\ ex_mux = "none"
           /\ ex_i >= ex_loc.total
           /\ Len(fs["temp_video"].frames) = ex_i
           /\ \A k \in 1..Len(ex_progress) : ex_progress[k] <= 80
           /\ ex_progress # <<>> /\ ex_progress[Len(ex_progress)] = 80

\* C23: after stop_recording on an audio-enabled sub-run whose save_to_file
\* wrote no file (no source delivered data, or the write failed), the session
\* holds no audio path.
C23_NoArtifactNoPath ==
    (/\ gui_pc = "idle"
     /\ record_thread # None
     /\ rt[record_thread].merges >= 1
     /\ rt[record_thread].record_audio
     /\ ~rt[record_thread].saved) =>
        audio_file = None

\* the last sub-run was ended by a normal stop (finish = True) that has
\* returned
AfterFinishingStop ==
    /\ gui_pc = "idle"
    /\ record_thread # None
    /\ rt[record_thread].merges >= 1
    /\ rt[record_thread].finish

\* C24: a recording started after a normal stop, not as the continuation of a
\* reselect, begins with an empty cumulative frame list and no audio path.
C24_FreshRecordingIsEmpty ==
    [][(AfterFinishingStop /\ StartRecording) =>
          (frames' = <<>> /\ audio_file' = None)]_vars

\* C25: whatever channel count a source was opened with, it enters the mix
\* with exactly 2 channels, so that save_to_file on sources that delivered
\* data writes a stereo file (sf.write itself succeeding).
C25_CoercedToStereo ==
    au_pc = "returned" =>
        /\ \A i \in 1..Len(au_parts) : au_parts[i].audio.ch = 2
        /\ (au_write_ok /\ au_parts # <<>>) => (au_ret # None /\ au_file.ch = 2)

\* the set-up outcomes after which a source has no running stream
SourceFailed(outcome) ==
    outcome \in {"no_device", "host_fail", "query_fail", "no_channels",
                 "open_fail", "start_fail"}

C26_FailedSourceIsSilent ==
    /\ SourceFailed(ar.sys_outcome) => ar.system = 0
    /\ SourceFailed(ar.mic_outcome) => ar.mic = 0

C26_OtherSourceRuns ==
    /\ ar_pc \in {"wait", "closing", "returned"} =>
           /\ ar.sys_outcome # "pending"
           /\ ar.mic_outcome # "pending"
    /\ (ar_pc \in {"mic", "wait", "closing"} /\ ar.sys_outcome = "ok") =>
           ar.system_stream = "active"
    /\ (ar_pc \in {"wait", "closing"} /\ ar.mic_outcome = "ok") =>
           ar.mic_stream = "active"

\* C26: a source whose set-up fails (no loopback device, a query that raises,
\* an open or start that raises) contributes no chunk; the other source is
\* still set up and, when its set-up succeeds, its stream runs until the
\* finally block; run reaches the finally block only after stop(); and no
\* step of the audio thread changes the state of the capture loop.
C26_SourceFailureIsIsolated ==
    /\ [](C26_FailedSourceIsSilent /\ C26_OtherSourceRuns)
    /\ [](ar_pc \in {"closing", "returned"} => ar.stopped)
    /\ [][UNCHANGED <<rt, frames, grabbed>>]_vars

\* the system source failed at open, the microphone delivered chunks, and
\* run returned after stop()
C26_Witness ==
    /\ ar_pc = "returned"
    /\ ar.sys_outcome = "open_fail"
    /\ ar.system = 0
    /\ ar.mic_outcome = "ok"
    /\ ar.mic >= 1

\* C27: when run has returned, every stream that was opened is closed and
\* the audio host object, if created, is terminated.
C27_StreamsReleased ==
    ar_pc = "returned" =>
        /\ ar.system_stream \in {"none", "closed"}
        /\ ar.mic_stream \in {"none", "closed"}
        /\ ar.p \in {"none", "terminated"}

\* what the claim says of a device list: the first loopback-named device
\* whose name contains the default output's name, else the first device with
\* "loopback" in its name, else none
C29_Expected(devs) ==
    LET matching == {i \in 1..Len(devs) :
                        (devs[i].suffix \/ devs[i].word) /\ devs[i].has_default}
        loopback == {i \in 1..Len(devs) : devs[i].word}
        Least(S) == CHOOSE i \in S : \A j \in S : i <= j
    IN  IF matching # {} THEN Least(matching)
        ELSE IF loopback # {} THEN Least(loopback)
        ELSE 0

\* C29: once the discovery has run to its end the device chosen is the one
\* the rule names; a system stream is opened on that device only, so with no
\* loopback device there is no system stream, and the microphone set-up is
\* attempted all the same.
C29_LoopbackDiscovery ==
    /\ ar.sys_outcome \in {"no_device", "open_fail", "start_fail", "ok"} =>
           /\ ar.chosen = C29_Expected(ar_devs)
           /\ ar.sys_outcome = "no_device" <=> C29_Expected(ar_devs) = 0
    /\ ar.system_stream # "none" =>
           (ar.chosen # 0 /\ ar.chosen = C29_Expected(ar_devs))
    /\ (C29_Expected(ar_devs) = 0 /\ ar_pc \in {"wait", "closing", "returned"}) =>
           (ar.system_stream = "none" /\ ar.mic_outcome # "pending")

\* a list whose first loopback device does not match the default output and
\* whose second does: the second is chosen and its stream runs
C29_Witness ==
    /\ Len(ar_devs) = 2
    /\ ar_devs[1].word /\ ~ar_devs[1].has_default
    /\ ar_devs[2].word /\ ar_devs[2].has_default
    /\ ar.chosen = 2
    /\ ar.system_stream = "active"

\* C28: a job in which an encoding statement raised (direct video writing,
\* gif encoding, writing the intermediate video) ends with exactly
\* export_finished(False, message of the exception): no export_finished(True,
\* ...) is emitted for it, and the mux is not attempted.
C28_EncodingExceptionFailsJob ==
    ex_loc.e # NoException =>
        /\ ex_pc \in {"finished", "delivered"}
        /\ ex_finished = <<[success |-> FALSE, msg |-> ex_loc.e]>>
        /\ ex_mux = "none"

\* writing the intermediate video of a job with audio raised after the first
\* frame
C28_Witness ==
    /\ ex_loc.e = "codec rejected"
    /\ ex_job.fmt = "mp4" /\ HasAudio(ex_job, fs)
    /\ ex_i = 1 /\ Len(ex_job.frames) >= 2
    /\ Len(fs["temp_video"].frames) = 1
    /\ ex_pc = "finished"

\* C30: every iteration of the capture loop calls grab once and appends at
\* most one frame; the loop sleeps exactly when elapsed < interval, for
\* interval - elapsed, and otherwise goes straight to the next iteration;
\* hence an iteration starts no earlier than 1/fps after the previous one
\* started, and the frames captured in T seconds are at most fps * T + 1.
C30_PacedCapture ==
    /\ [](/\ pace.grabs = (IF pace_pc = "grab" THEN pace.ticks - 1 ELSE pace.ticks)
          /\ pace.appended <= pace.grabs)
    /\ [](pace_pc = "sleep" =>
            /\ pace.now - pace.start < Interval(pace.fps)
            /\ pace.sleep_for = Interval(pace.fps) - (pace.now - pace.start))
    /\ []((pace_pc \in {"test", "done"} /\ pace.ticks >= 1) =>
            pace.now - pace.start >= Interval(pace.fps))
    /\ [][(pace_pc = "grab" /\ pace_pc' = "test") => pace'.sleeps = pace.sleeps]_vars
    /\ [][pace'.ticks = pace.ticks + 1 =>
            (pace.ticks >= 1 => pace'.start * pace.fps >= pace.start * pace.fps + TicksPerSecond)]_vars
    /\ [](pace.ticks >= 1 =>
            (pace.appended - 1) * TicksPerSecond <= (pace.now - pace.first) * pace.fps)

\* a 60 fps loop that slept after a fast grab, ran a slow grab without
\* sleeping, and holds as many frames as the bound allows
C30_Witness ==
    /\ pace.fps = 60
    /\ pace.sleeps >= 1
    /\ pace.ticks > pace.sleeps + 1
    /\ pace.appended >= 3
    /\ (pace.appended - 1) * TicksPerSecond = (pace.now - pace.first) * pace.fps

\* C31: with audio enabled, a RecordThread that has left its capture loop and
\* called audio_thread.stop() eventually returns from run, having emitted
\* recording_stopped exactly once: audio_thread.wait() never blocks forever,
\* also when stop() ran before AudioRecordThread.run set its flag.
C31_AudioStopEndsRun ==
    \A t \in 1..MaxThreads :
        (t \in Threads /\ rt[t].pc = "audio_wait") ~>
            (t \in Threads /\ rt[t].pc = "done" /\ rt[t].stopped_emitted = 1)

\* C32: a sub-run's frames are merged into the cumulative sequence exactly
\* once: a stop_recording that follows another with no start_recording in
\* between (the sub-run it joins was merged already) leaves frames unchanged.
C32_MergedExactlyOnce ==
    [][(StopRecordingJoin /\ rt[record_thread].merges >= 1) => frames' = frames]_vars

\* C33: every frame of the cumulative sequence handed to a raster-video
\* export has the width and height of the first frame, the size the writer
\* is opened with, whatever regions the session's sub-runs recorded.
C33_FramesHaveOneSize ==
    (ex_pc # "none" /\ ex_job.fmt # "gif") =>
        \A k \in 1..Len(ex_job.frames) :
            /\ ex_job.frames[k].w = ex_job.frames[1].w
            /\ ex_job.frames[k].h = ex_job.frames[1].h

\* C34: after an export that took the with-audio path has finished, the audio
\* path the session holds still names an existing file, so that a second
\* raster-video export of the same session takes the with-audio path again.
C34_AudioSurvivesExport ==
    (/\ ex_pc \in {"finished", "delivered"}
     /\ ex_mux # "none"
     /\ audio_file # None
     /\ ex_job.audio_file = audio_file) =>
        rt[audio_file].wav

\* C35: at most one export job runs at any instant: start_export never
\* creates an ExportThread while the previous one has not yet emitted
\* export_finished.
C35_OneExportAtATime == ~ex_orphaned

\* C36: the sample rate declared for the written audio file is the rate at
\* which every source that contributes to it was captured.
C36_OneSampleRate ==
    (au_pc = "returned" /\ au_ret # None) =>
        \A i \in 1..Len(au_parts) :
            CaptureRate(au_thread, au_parts[i].source) = WrittenRate(au_thread)

====
